---- MODULE Spec2Model ----
(***************************************************************************)
(* Model of the GBP/CNY rate card scripts:                                 *)
(*   src/scripts/fetch_multi_bank.py   (six bank adapters, thread pool     *)
(*                                      fan-out, reconcile, save)          *)
(*   src/fetch_boc_gbp_improved.py     (single-bank script, same output    *)
(*                                      path docs/data.json)               *)
(*                                                                         *)
(* Numbers are fixed point.  A numeric table cell holds the printed value  *)
(* in units of 10^-4 (954.44 is 9544400, 9.5444 is 95444).  Dividing a     *)
(* cell by 100.0 gives the rate in units of 10^-6, which is the same       *)
(* integer.  Every rate and rate_change of a quote or a document is held   *)
(* in units of 10^-6 (9.5444 is 9544400), so a value rounded to 4 decimals *)
(* is a multiple of 100; rate_change_percent is held in units of 10^-2     *)
(* percent (1.05 is 105).                                                  *)
(***************************************************************************)
EXTENDS Integers, Sequences, FiniteSets, TLC

VARIABLES
    file,           \* content of docs/data.json
    file0,          \* history: content of docs/data.json when the process started
    pc,             \* position of main(): "start", "fetch", "joined", "exited"
    previous_data,  \* what load_previous_data returned
    future,         \* per bank: state of the future submitted to the pool
    results,        \* fetch_all_banks' results list, in collection order
    collected,      \* banks whose future the as_collected loop has handled
    wrote,          \* history: what this run left at the path: "none",
                    \* "success", "error" or "partial"
    io_log,         \* history: file system outcome of each write attempted
    exit_code,      \* sys.exit code, -1 while running
    adapter_in,     \* adapter specification: bank, network failures and page
    adapter_out,    \* adapter specification: what the adapter returned
    retries,        \* fetch_html_with_retry: the argument retries
    network,        \* fetch_html_with_retry: what each attempt will meet
    attempt,        \* fetch_html_with_retry: the loop variable
    retry_pc,       \* fetch_html_with_retry: "for", "sleep" or "done"
    trace,          \* history: the attempts and sleeps made, in order
    returned        \* fetch_html_with_retry: how the call ended

vars == <<file, file0, pc, previous_data, future, results, collected, wrote,
          io_log, exit_code, adapter_in, adapter_out, retries, network,
          attempt, retry_pc, trace, returned>>

runVars == <<file, file0, pc, previous_data, future, results, collected, wrote,
             io_log, exit_code>>

adapterVars == <<adapter_in, adapter_out>>

retryVars == <<retries, network, attempt, retry_pc, trace, returned>>

(***************************************************************************)
(* Bounds of the model.                                                    *)
(***************************************************************************)
NumBanks == 3       \* how many of the six adapters a modelled run submits
MaxRows == 2        \* rows of a modelled page
MaxRetriesArg == 3  \* largest argument retries of a modelled call

(***************************************************************************)
(* Program constants.                                                      *)
(***************************************************************************)
MAX_RETRIES == 3
VALID_RATE_LO == 5
VALID_RATE_HI == 15
RATE_DIGITS == 4
PERCENT_DIGITS == 2
PER100_LO == 500
PER100_HI == 1500

Unit4 == 10^RATE_DIGITS             \* one, in units of 10^-4
Micro == 100 * Unit4                \* one, in units of 10^-6
Pct == 10^PERCENT_DIGITS            \* one percent, in units of 10^-2 percent

\* FETCH_FUNCTIONS, in submission order.
BankOrder == <<"BOC", "ICBC", "CCB", "CMB", "BOCOM", "ABC">>

AllBanks == {BankOrder[i] : i \in 1..Len(BankOrder)}

Banks == {BankOrder[i] : i \in 1..NumBanks}

(***************************************************************************)
(* Python's round(x, n) on a value num/den with den > 0, to the nearest    *)
(* integer, ties to even.  (On binary floats a decimal tie is decided by   *)
(* the representation error; the properties below that mention rounding    *)
(* only rely on the result being a nearest integer.)                       *)
(***************************************************************************)
round(num, den) ==
    LET fl == num \div den
        twice == 2 * (num - fl * den)
    IN  IF twice < den THEN fl
        ELSE IF twice > den THEN fl + 1
        ELSE IF fl % 2 = 0 THEN fl ELSE fl + 1

\* round(x, 4) of a value in units of 10^-6
round4(x) == round(x, Micro \div Unit4) * (Micro \div Unit4)

\* `digits` further decimal digits of quot + rem / den, by long division
RECURSIVE long_division(_, _, _, _)
long_division(quot, rem, den, digits) ==
    IF digits = 0 THEN [quot |-> quot, rem |-> rem]
    ELSE long_division(quot * 10 + (rem * 10) \div den, (rem * 10) % den,
                       den, digits - 1)

\* round(num / den, digits), in units of 10^-digits, den > 0
round_quotient(num, den, digits) ==
    LET d == long_division(num \div den, num % den, den, digits)
    IN  IF 2 * d.rem < den THEN d.quot
        ELSE IF 2 * d.rem > den THEN d.quot + 1
        ELSE IF d.quot % 2 = 0 THEN d.quot ELSE d.quot + 1

(***************************************************************************)
(* Pages.  A page is a sequence of rows, a row a sequence of cells.  A     *)
(* cell has its tag (td or th) and its stripped text: kind "num" is a text *)
(* float() parses to num (units of 10^-4), kind "nan" a text float()       *)
(* parses to nan, kind "text" any other text (float() raises ValueError).  *)
(* The text "YingBang" stands for the currency's Chinese name.             *)
(***************************************************************************)
TD(t) == [tag |-> "td", kind |-> "text", num |-> 0, text |-> t]
TH(t) == [tag |-> "th", kind |-> "text", num |-> 0, text |-> t]
NUM(n) == [tag |-> "td", kind |-> "num", num |-> n, text |-> ""]
NAN == [tag |-> "td", kind |-> "nan", num |-> 0, text |-> "nan"]

\* needle in text, for the texts and needles of the model
Contains(text, needle) == text = needle

\* str.lower()
lower(text) == IF text = "GBP" THEN "gbp" ELSE text

\* row.find_all(tags)
find_all(row, tags) == SelectSeq(row, LAMBDA c : c.tag \in tags)

\* needle in ' '.join(cell_texts)
InRowText(cell_texts, needle) ==
    \E i \in 1..Len(cell_texts) : Contains(cell_texts[i].text, needle)

\* needle in ' '.join(cell_texts).lower()
InLowerRowText(cell_texts, needle) ==
    \E i \in 1..Len(cell_texts) : Contains(lower(cell_texts[i].text), needle)

(***************************************************************************)
(* fetch_html_with_retry: the network fails the first `failures` attempts. *)
(* (The argument retries is written n: retries is a variable below.)       *)
(***************************************************************************)
fetch_html_with_retry(failures, n, page) ==
    IF n <= 0
    THEN [ok |-> TRUE, html |-> <<>>, attempts |-> 0, sleeps |-> 0]
    ELSE IF failures < n
    THEN [ok |-> TRUE, html |-> page, attempts |-> failures + 1,
          sleeps |-> failures]
    ELSE [ok |-> FALSE, html |-> <<>>, attempts |-> n,
          sleeps |-> n - 1]

(***************************************************************************)
(* validate_rate: rate in units of 10^-6.                                  *)
(***************************************************************************)
validate_rate_no_upper(rate) == VALID_RATE_LO * Micro <= rate

validate_rate(rate) ==
    VALID_RATE_LO * Micro <= rate /\ rate <= VALID_RATE_HI * Micro

(***************************************************************************)
(* What an adapter returns: a quote, or None.                              *)
(***************************************************************************)
None == [status |-> "None"]

RateQuote(bank_code, rate) ==
    [bank_code |-> bank_code, rate |-> round4(rate), status |-> "success"]

(***************************************************************************)
(* fetch_boc: fixed column, the first matching row decides.                *)
(***************************************************************************)
RECURSIVE boc_rows(_, _)
boc_rows(rows, i) ==
    IF i > Len(rows) THEN None                          \* RuntimeError, caught
    ELSE LET cell_texts == find_all(rows[i], {"td"}) IN
         IF Len(cell_texts) < 7 THEN boc_rows(rows, i + 1)
         ELSE IF ~Contains(cell_texts[1].text, "YingBang")
                 /\ ~Contains(cell_texts[1].text, "GBP")
         THEN boc_rows(rows, i + 1)
         ELSE IF cell_texts[4].kind = "text" THEN None  \* ValueError, caught
         ELSE IF cell_texts[4].kind = "nan" THEN None   \* validate_rate(nan)
         ELSE IF ~validate_rate(cell_texts[4].num) THEN None
         ELSE RateQuote("BOC", cell_texts[4].num)

fetch_boc(net) ==
    LET got == fetch_html_with_retry(net.failures, MAX_RETRIES, net.page) IN
    IF ~got.ok THEN None ELSE boc_rows(got.html, 1)

(***************************************************************************)
(* parse_gbp_rate_bs4 of src/fetch_boc_gbp_improved.py: the same fixed     *)
(* column, but a row that does not parse or validate raises ValueError,    *)
(* which is caught inside the loop, and the next row is tried.             *)
(***************************************************************************)
RuntimeError == [status |-> "RuntimeError"]

RECURSIVE parse_gbp_rate_bs4_rows(_, _)
parse_gbp_rate_bs4_rows(rows, i) ==
    IF i > Len(rows) THEN RuntimeError                  \* line 105
    ELSE LET cell_texts == find_all(rows[i], {"td"}) IN
         IF Len(cell_texts) < 7 THEN parse_gbp_rate_bs4_rows(rows, i + 1)
         ELSE IF ~Contains(cell_texts[1].text, "YingBang")
                 /\ ~Contains(cell_texts[1].text, "GBP")
         THEN parse_gbp_rate_bs4_rows(rows, i + 1)
         ELSE IF \/ cell_texts[4].kind # "num"           \* ValueError, continue
                 \/ ~validate_rate(cell_texts[4].num)
         THEN parse_gbp_rate_bs4_rows(rows, i + 1)
         ELSE [status |-> "success",
               rate_cny_per_gbp |-> round4(cell_texts[4].num),
               rate_cny_per_100_gbp |-> round(cell_texts[4].num, 100) * 100]

parse_gbp_rate_bs4(html) == parse_gbp_rate_bs4_rows(html, 1)

\* main of the single-bank script, lines 156-157
fetch_and_parse(net) ==
    LET got == fetch_html_with_retry(net.failures, MAX_RETRIES, net.page) IN
    IF ~got.ok THEN RuntimeError ELSE parse_gbp_rate_bs4(got.html)

(***************************************************************************)
(* The five row-scanning adapters: the first cell of a matching row whose  *)
(* value is strictly between 500 and 1500 and validates is returned.       *)
(***************************************************************************)
RECURSIVE scan_cells(_, _, _)
scan_cells(bank_code, cell_texts, i) ==
    IF i > Len(cell_texts) THEN None
    ELSE LET c == cell_texts[i] IN
         IF /\ c.kind = "num"
            /\ PER100_LO * Unit4 < c.num
            /\ c.num < PER100_HI * Unit4
            /\ validate_rate(c.num)
         THEN RateQuote(bank_code, c.num)
         ELSE scan_cells(bank_code, cell_texts, i + 1)

RECURSIVE scan_rows(_, _, _, _, _, _)
scan_rows(bank_code, rows, i, tags, min_cells, lowered) ==
    IF i > Len(rows) THEN None                          \* RuntimeError, caught
    ELSE LET cell_texts == find_all(rows[i], tags)
             matched == IF lowered
                        THEN \/ InLowerRowText(cell_texts, "YingBang")
                             \/ InLowerRowText(cell_texts, "gbp")
                        ELSE \/ InRowText(cell_texts, "YingBang")
                             \/ InRowText(cell_texts, "GBP")
             hit == scan_cells(bank_code, cell_texts, 1)
         IN  IF Len(cell_texts) >= min_cells /\ matched /\ hit # None
             THEN hit
             ELSE scan_rows(bank_code, rows, i + 1, tags, min_cells, lowered)

fetch_icbc(net) ==
    LET got == fetch_html_with_retry(net.failures, MAX_RETRIES, net.page) IN
    IF ~got.ok THEN None ELSE scan_rows("ICBC", got.html, 1, {"td"}, 5, TRUE)

fetch_ccb(net) ==
    LET got == fetch_html_with_retry(net.failures, MAX_RETRIES, net.page) IN
    IF ~got.ok THEN None
    ELSE scan_rows("CCB", got.html, 1, {"td", "th"}, 5, FALSE)

fetch_cmb(net) ==
    LET got == fetch_html_with_retry(net.failures, MAX_RETRIES, net.page) IN
    IF ~got.ok THEN None ELSE scan_rows("CMB", got.html, 1, {"td"}, 4, FALSE)

fetch_bocom(net) ==
    LET got == fetch_html_with_retry(net.failures, MAX_RETRIES, net.page) IN
    IF ~got.ok THEN None ELSE scan_rows("BOCOM", got.html, 1, {"td"}, 5, FALSE)

fetch_abc(net) ==
    LET got == fetch_html_with_retry(net.failures, MAX_RETRIES, net.page) IN
    IF ~got.ok THEN None ELSE scan_rows("ABC", got.html, 1, {"td"}, 5, FALSE)

\* FETCH_FUNCTIONS[bank_code]()
FETCH_FUNCTIONS(bank_code, net) ==
    CASE bank_code = "BOC" -> fetch_boc(net)
      [] bank_code = "ICBC" -> fetch_icbc(net)
      [] bank_code = "CCB" -> fetch_ccb(net)
      [] bank_code = "CMB" -> fetch_cmb(net)
      [] bank_code = "BOCOM" -> fetch_bocom(net)
      [] bank_code = "ABC" -> fetch_abc(net)

(***************************************************************************)
(* The rows and pages the model draws from.  Row7 has the layout of the    *)
(* BOC table: currency, two buying prices, the selling prices, a time.     *)
(***************************************************************************)
Row7(marker, buy, sell) ==
    <<TD(marker), NUM(buy), NUM(buy), NUM(sell), NUM(sell), NUM(sell),
      TD("10:30:00")>>

\* Rows of the runs of main(): few distinct rates, so that banks tie.
RunRows ==
    { Row7("YingBang", 9500000, 9600000),   \* 950.00 / 960.00
      Row7("GBP", 9600000, 9500000),
      Row7("GBP", 20000000, 9600000),       \* 2000.00 is out of range
      Row7("GBP", 9500000, 20000000),
      Row7("USD", 9500000, 9500000),
      Row7("YingBang", 14999999, 15000001), \* 1499.9999 / 1500.0001
      Row7("GBP", 5000000, 5000000),        \* 500.00
      <<TD("GBP"), NUM(9500000)>> }         \* too few cells

\* Further rows of the adapter specification.
AdapterRows ==
    RunRows \cup
    { Row7("GBP", 9544400, 9544400),        \* 954.44, quoted per 100 units
      Row7("GBP", 95444, 95444),            \* 9.5444, quoted directly
      Row7("gbp", 9544400, 9544400),
      Row7("GBP", 4999999, 4999999),        \* 499.9999
      <<TD("GBP"), TD("-"), TD("-"), TD("-"), NAN, NUM(9544450),
        TD("10:30:00")>>,
      <<TD("GBP"), NUM(9600000), NUM(9600000), NUM(9600000)>>,
      <<TH("GBP"), TH("buy"), TH("sell"), NUM(9600000), NUM(9600000)>> }

RECURSIVE SeqsUpTo(_, _)
SeqsUpTo(S, n) ==
    IF n = 0 THEN {<<>>}
    ELSE LET shorter == SeqsUpTo(S, n - 1)
         IN  shorter \cup {Append(s, x) : s \in shorter, x \in S}

RunPages == SeqsUpTo(RunRows, MaxRows)

AdapterPages == SeqsUpTo(AdapterRows, MaxRows)

\* The network: how many attempts fail before one succeeds, and the page.
RunNets == [failures : {0, MAX_RETRIES}, page : RunPages]

AdapterNets == [failures : 0..MAX_RETRIES, page : AdapterPages]

\* What each adapter can return in a run of main().
AdapterOutcomes ==
    [b \in AllBanks |-> {FETCH_FUNCTIONS(b, net) : net \in RunNets}]

(***************************************************************************)
(* find_best_rate: Python's min returns the first minimal element.         *)
(***************************************************************************)
find_best_rate_last(banks) ==
    IF banks = <<>> THEN None
    ELSE banks[CHOOSE i \in 1..Len(banks) :
                 /\ \A j \in 1..Len(banks) : banks[j].rate >= banks[i].rate
                 /\ \A j \in (i + 1)..Len(banks) : banks[j].rate > banks[i].rate]

find_best_rate(banks) ==
    IF banks = <<>> THEN None
    ELSE banks[CHOOSE i \in 1..Len(banks) :
                 /\ \A j \in 1..Len(banks) : banks[j].rate >= banks[i].rate
                 /\ \A j \in 1..(i - 1) : banks[j].rate > banks[i].rate]

(***************************************************************************)
(* banks.sort(key=rate): a stable sort, ascending.                         *)
(***************************************************************************)
insert_sorted(sorted, q) ==
    LET n == Cardinality({i \in 1..Len(sorted) : sorted[i].rate <= q.rate})
    IN  SubSeq(sorted, 1, n) \o <<q>> \o SubSeq(sorted, n + 1, Len(sorted))

RECURSIVE sort_from(_, _, _)
sort_from(banks, i, sorted) ==
    IF i > Len(banks) THEN sorted
    ELSE sort_from(banks, i + 1, insert_sorted(sorted, banks[i]))

sort_not_at_all(banks) == banks

sort(banks) == sort_from(banks, 1, <<>>)

(***************************************************************************)
(* The documents of docs/data.json.  A file is absent, or holds a complete *)
(* document, or is incomplete: empty, cut short or otherwise not JSON.     *)
(***************************************************************************)
NullDoc == [status |-> "null"]

Absent == [exists |-> FALSE, complete |-> FALSE, doc |-> NullDoc]

Complete(doc) == [exists |-> TRUE, complete |-> TRUE, doc |-> doc]

Partial(doc) == [exists |-> TRUE, complete |-> FALSE, doc |-> doc]

\* main, lines 528-539
Snapshot(banks, best) ==
    [status |-> "success",
     best_bank |-> IF best # None THEN best.bank_code ELSE "null",
     best_rate |-> IF best # None THEN best.rate ELSE 0,
     banks |-> banks,
     bank_count |-> Len(banks)]

\* main, lines 566-571
ErrorDoc(message) ==
    [status |-> "error", error_message |-> message, banks |-> <<>>]

\* load_previous_data: None when the file is absent or does not parse
load_previous_data(f) ==
    IF f.exists /\ f.complete THEN f.doc ELSE None

(***************************************************************************)
(* calculate_changes.  The dict comprehension of line 473 raises KeyError  *)
(* when an entry of the previous banks has no bank_code, and keeps the     *)
(* last entry of each bank_code.                                           *)
(***************************************************************************)
HasKey(d, k) == k \in DOMAIN d

prev_banks_raises(prev) ==
    /\ prev # None
    /\ HasKey(prev, "banks")
    /\ \E i \in 1..Len(prev.banks) :
          ~HasKey(prev.banks[i], "bank_code")

\* prev_banks[code], when code in prev_banks
prev_banks(prev, code) ==
    LET bs == prev.banks
        at == {i \in 1..Len(bs) : bs[i].bank_code = code}
    IN  bs[CHOOSE i \in at : \A j \in at : j <= i]

in_prev_banks(prev, code) ==
    \E i \in 1..Len(prev.banks) :
        prev.banks[i].bank_code = code

\* prev_banks[code].get('rate', 0)
old_rate_of(prev, code) ==
    LET b == prev_banks(prev, code)
    IN  IF HasKey(b, "rate") THEN b.rate ELSE 0

rate_change_percent_of_new(change, old_rate, new_rate) ==
    round_quotient(change, new_rate, 2 + PERCENT_DIGITS)

\* round((change / old_rate) * 100, 2)
rate_change_percent(change, old_rate, new_rate) ==
    round_quotient(change, old_rate, 2 + PERCENT_DIGITS)

annotate_always(bank, prev) ==
    [bank_code |-> bank.bank_code, rate |-> bank.rate, status |-> bank.status,
     rate_change |-> 0, rate_change_percent |-> 0]

\* the body of the loop of lines 475-483, for one bank
annotate(bank, prev) ==
    IF ~in_prev_banks(prev, bank.bank_code) THEN bank
    ELSE LET old_rate == old_rate_of(prev, bank.bank_code)
             new_rate == bank.rate
             change == new_rate - old_rate
         IN  IF old_rate > 0
             THEN [bank_code |-> bank.bank_code,
                   rate |-> bank.rate,
                   status |-> bank.status,
                   rate_change |-> round4(change),
                   rate_change_percent |->
                       rate_change_percent(change, old_rate, new_rate)]
             ELSE bank

calculate_changes(current_banks, prev) ==
    IF prev = None \/ ~HasKey(prev, "banks")
    THEN current_banks
    ELSE [i \in 1..Len(current_banks) |->
              annotate(current_banks[i], prev)]

(***************************************************************************)
(* Writing docs/data.json.  io is what the file system does to the write:  *)
(*   "ok"          the document is written whole;                          *)
(*   "open_fails"  mkdir or open raises, the path is not touched;          *)
(*   "dump_fails"  open(filepath, 'w') has truncated the file and          *)
(*                 json.dump raises before the document is whole.          *)
(***************************************************************************)
IoOutcomes == {"ok", "open_fails", "dump_fails"}

\* with open(filepath, 'w') as f: json.dump(doc, f)
write_json(doc, f, io) ==
    CASE io = "ok" ->
           [raised |-> FALSE, file |-> Complete(doc), wrote |-> doc.status]
      [] io = "open_fails" ->
           [raised |-> TRUE, file |-> f, wrote |-> "none"]
      [] io = "dump_fails" ->
           [raised |-> TRUE, file |-> Partial(doc), wrote |-> "partial"]

save_data_swallows(data, f, io) ==
    [raised |-> FALSE, file |-> write_json(data, f, io).file,
     wrote |-> write_json(data, f, io).wrote]

\* save_data re-raises what the write raised
save_data(data, f, io) == write_json(data, f, io)

except_handler_overwrites(before, message, io) ==
    [file |-> write_json(ErrorDoc(message), before.file, io).file,
     wrote |-> write_json(ErrorDoc(message), before.file, io).wrote,
     io_log |-> Append(before.io_log, io)]

\* main, lines 561-577: the error document is written only when the path
\* does not exist, and a failure of that write is swallowed.  before is the
\* file, what the run wrote and its writes when the handler is entered.
except_handler(before, message, io) ==
    IF ~before.file.exists
    THEN [file |-> write_json(ErrorDoc(message), before.file, io).file,
          wrote |-> write_json(ErrorDoc(message), before.file, io).wrote,
          io_log |-> Append(before.io_log, io)]
    ELSE before

(***************************************************************************)
(* fetch_all_banks.  A future is running, or finished with the adapter's   *)
(* return value, or finished with an exception that escaped the adapter    *)
(* (raised inside its own except handler).                                 *)
(***************************************************************************)
Running == [state |-> "running", raised |-> FALSE, result |-> None]

Finished(result) == [state |-> "finished", raised |-> FALSE, result |-> result]

Raised == [state |-> "finished", raised |-> TRUE, result |-> None]

collect_drops_on_failure(res, fut) ==
    IF ~fut.raised /\ fut.result # None THEN Append(res, fut.result) ELSE <<>>

\* the body of the as_collected loop, lines 434-443
collect(res, fut) ==
    IF ~fut.raised /\ fut.result # None THEN Append(res, fut.result) ELSE res

(***************************************************************************)
(* The previous documents a run can find at docs/data.json.  The banks of  *)
(* a document have distinct bank_codes, as in every document main writes.  *)
(***************************************************************************)
Q(bank_code, rate) ==
    [bank_code |-> bank_code, rate |-> rate, status |-> "success"]

QC(bank_code, rate, change, percent) ==
    [bank_code |-> bank_code, rate |-> rate, status |-> "success",
     rate_change |-> change, rate_change_percent |-> percent]

MakeSnapshot(banks) == Snapshot(sort(banks), find_best_rate(sort(banks)))

InitialFiles ==
    { Absent,
      Partial(NullDoc),
      Complete(ErrorDoc("Failed to fetch any bank rates")),
      \* written by fetch_boc_gbp_improved.py: no banks key
      Complete([status |-> "success", rate_cny_per_gbp |-> 9500000]),
      \* written by an earlier run: 9.5000 and 9.6000 (-0.0100, -0.10 %)
      Complete(MakeSnapshot(<<Q("BOC", 9500000),
                              QC("ICBC", 9600000, -10000, -10)>>)),
      \* not written by this program: zero and negative rates, and a rate
      \* with more than 4 decimals (9.500049)
      Complete(MakeSnapshot(<<Q("BOC", 0), Q("ICBC", -9500000),
                              Q("CCB", 9500049)>>)),
      \* not written by this program: an entry without rate
      Complete([status |-> "success",
                banks |-> <<[bank_code |-> "BOC", status |-> "success"],
                            Q("ICBC", 9600000)>>]),
      \* not written by this program: an entry without bank_code
      Complete([status |-> "success",
                banks |-> <<[rate |-> 9500000, status |-> "success"]>>]) }

(***************************************************************************)
(* The run of main().                                                      *)
(***************************************************************************)
RunInit ==
    /\ file \in InitialFiles
    /\ file0 = file
    /\ pc = "start"
    /\ previous_data = None
    /\ future = [b \in Banks |-> Running]
    /\ results = <<>>
    /\ collected = {}
    /\ wrote = "none"
    /\ io_log = <<>>
    /\ exit_code = -1

\* main, lines 506-512, and fetch_all_banks up to the submission of the
\* adapters (lines 424-431)
Load ==
    /\ pc = "start"
    /\ previous_data' = load_previous_data(file)
    /\ pc' = "fetch"
    /\ UNCHANGED <<file, file0, future, results, collected, wrote, io_log,
                   exit_code>>

\* a pool thread runs FETCH_FUNCTIONS[b] to its end
Worker(b) ==
    /\ pc = "fetch"
    /\ future[b].state = "running"
    /\ \/ \E r \in AdapterOutcomes[b] :
              future' = [future EXCEPT ![b] = Finished(r)]
       \/ future' = [future EXCEPT ![b] = Raised]
    /\ UNCHANGED <<file, file0, pc, previous_data, results, collected, wrote,
                   io_log, exit_code>>

\* one turn of the as_collected loop, lines 433-443
AsCompleted(b) ==
    /\ pc = "fetch"
    /\ future[b].state = "finished"
    /\ b \notin collected
    /\ results' = collect(results, future[b])
    /\ collected' = collected \cup {b}
    /\ UNCHANGED <<file, file0, pc, previous_data, future, wrote, io_log,
                   exit_code>>

\* as_collected is exhausted, the pool is shut down, fetch_all_banks returns
Join ==
    /\ pc = "fetch"
    /\ collected = Banks
    /\ pc' = "joined"
    /\ UNCHANGED <<file, file0, previous_data, future, results, collected,
                   wrote, io_log, exit_code>>

Entered == [file |-> file, wrote |-> wrote, io_log |-> io_log]

\* main, lines 514-515 and 561-579: no bank answered
AllBanksFailed ==
    /\ pc = "joined"
    /\ results = <<>>
    /\ \E io \in IoOutcomes :
          LET h == except_handler(Entered, "Failed to fetch any bank rates", io)
          IN  /\ file' = h.file
              /\ wrote' = h.wrote
              /\ io_log' = h.io_log
    /\ exit_code' = 1
    /\ pc' = "exited"
    /\ UNCHANGED <<file0, previous_data, future, results, collected>>

\* main, lines 518 and 561-579: calculate_changes raises KeyError
ReconcileRaises ==
    /\ pc = "joined"
    /\ results # <<>>
    /\ prev_banks_raises(previous_data)
    /\ \E io \in IoOutcomes :
          LET h == except_handler(Entered, "'bank_code'", io)
          IN  /\ file' = h.file
              /\ wrote' = h.wrote
              /\ io_log' = h.io_log
    /\ exit_code' = 1
    /\ pc' = "exited"
    /\ UNCHANGED <<file0, previous_data, future, results, collected>>

\* main, lines 518-559, and lines 561-579 when save_data raises
ReconcileAndSave ==
    /\ pc = "joined"
    /\ results # <<>>
    /\ ~prev_banks_raises(previous_data)
    /\ \E io \in IoOutcomes, io2 \in IoOutcomes :
          LET banks == sort(calculate_changes(results, previous_data))
              best == find_best_rate(banks)
              saved == save_data(Snapshot(banks, best), file, io)
              h == except_handler([file |-> saved.file, wrote |-> saved.wrote,
                                   io_log |-> <<io>>],
                                  "Failed to save data", io2)
          IN  IF saved.raised
              THEN /\ file' = h.file
                   /\ wrote' = h.wrote
                   /\ io_log' = h.io_log
                   /\ exit_code' = 1
              ELSE /\ file' = saved.file
                   /\ wrote' = saved.wrote
                   /\ io_log' = <<io>>
                   /\ exit_code' = 0
    /\ pc' = "exited"
    /\ UNCHANGED <<file0, previous_data, future, results, collected>>

AdapterIdle ==
    /\ adapter_in = <<[failures |-> 0, page |-> <<>>], "BOC">>
    /\ adapter_out = [called |-> FALSE, result |-> None]

RetryIdle ==
    /\ retries = 0
    /\ network = <<>>
    /\ attempt = 0
    /\ retry_pc = "done"
    /\ trace = <<>>
    /\ returned = [kind |-> "none"]

Init == RunInit /\ AdapterIdle /\ RetryIdle

Next ==
    \/ Load /\ UNCHANGED <<adapterVars, retryVars>>
    \/ \E b \in Banks : Worker(b) /\ UNCHANGED <<adapterVars, retryVars>>
    \/ \E b \in Banks : AsCompleted(b) /\ UNCHANGED <<adapterVars, retryVars>>
    \/ Join /\ UNCHANGED <<adapterVars, retryVars>>
    \/ AllBanksFailed /\ UNCHANGED <<adapterVars, retryVars>>
    \/ ReconcileRaises /\ UNCHANGED <<adapterVars, retryVars>>
    \/ ReconcileAndSave /\ UNCHANGED <<adapterVars, retryVars>>

Spec == Init /\ [][Next]_vars

(***************************************************************************)
(* The adapters alone: one adapter is called on one page.                  *)
(***************************************************************************)
RunIdle ==
    /\ file = Absent
    /\ file0 = Absent
    /\ pc = "exited"
    /\ previous_data = None
    /\ future = [b \in Banks |-> Running]
    /\ results = <<>>
    /\ collected = {}
    /\ wrote = "none"
    /\ io_log = <<>>
    /\ exit_code = -1

\* the six adapters, and the parser of the single-bank script
Parsers == AllBanks \cup {"parse_gbp_rate_bs4"}

AdapterInit ==
    /\ RunIdle
    /\ RetryIdle
    /\ adapter_in \in AdapterNets \X Parsers
    /\ adapter_out = [called |-> FALSE, result |-> None]

\* FETCH_FUNCTIONS[bank]() on the page the network serves
CallAdapter ==
    /\ ~adapter_out.called
    /\ adapter_in[2] \in AllBanks
    /\ adapter_out' =
           [called |-> TRUE,
            result |-> FETCH_FUNCTIONS(adapter_in[2], adapter_in[1])]
    /\ UNCHANGED adapter_in
    /\ UNCHANGED <<runVars, retryVars>>

\* fetch_html_with_retry and parse_gbp_rate_bs4 on the page the network serves
CallParse ==
    /\ ~adapter_out.called
    /\ adapter_in[2] = "parse_gbp_rate_bs4"
    /\ adapter_out' = [called |-> TRUE, result |-> fetch_and_parse(adapter_in[1])]
    /\ UNCHANGED adapter_in
    /\ UNCHANGED <<runVars, retryVars>>

AdapterNext == CallAdapter \/ CallParse

SpecAdapter == AdapterInit /\ [][AdapterNext]_vars

(***************************************************************************)
(* The single-bank script src/fetch_boc_gbp_improved.py, which writes the  *)
(* same docs/data.json.  save_data divides by the previous rate whenever   *)
(* the previous document has the key rate_cny_per_gbp.                     *)
(***************************************************************************)
\* main, lines 170-175
SingleErrorDoc(message) == [status |-> "error", error_message |-> message]

\* round((change / old_rate) * 100, 2), old_rate # 0
single_rate_change_percent(change, old_rate) ==
    IF old_rate > 0
    THEN round_quotient(change, old_rate, 2 + PERCENT_DIGITS)
    ELSE round_quotient(-change, -old_rate, 2 + PERCENT_DIGITS)

\* save_data, lines 119-143; attempted: the file was opened or open was tried
single_save_data(data, f, prev, io) ==
    IF prev # None /\ HasKey(prev, "rate_cny_per_gbp")
    THEN LET old_rate == prev.rate_cny_per_gbp
             change == data.rate_cny_per_gbp - old_rate
         IN  IF old_rate = 0
             THEN [raised |-> TRUE, file |-> f, wrote |-> "none",
                   error |-> "ZeroDivisionError", io_log |-> <<>>]
             ELSE LET w == write_json(
                              [status |-> data.status,
                               rate_cny_per_gbp |-> data.rate_cny_per_gbp,
                               rate_cny_per_100_gbp |->
                                   data.rate_cny_per_100_gbp,
                               rate_change |-> round4(change),
                               rate_change_percent |->
                                   single_rate_change_percent(change, old_rate)],
                              f, io)
                  IN  [raised |-> w.raised, file |-> w.file, wrote |-> w.wrote,
                       error |-> "OSError", io_log |-> <<io>>]
    ELSE LET w == write_json(data, f, io)
         IN  [raised |-> w.raised, file |-> w.file, wrote |-> w.wrote,
              error |-> "OSError", io_log |-> <<io>>]

\* main, lines 165-183
single_except_handler(before, message, io) ==
    IF ~before.file.exists
    THEN [file |-> write_json(SingleErrorDoc(message), before.file, io).file,
          wrote |-> write_json(SingleErrorDoc(message), before.file, io).wrote,
          io_log |-> Append(before.io_log, io)]
    ELSE before

\* a document of the single-bank script whose rate is 0
SingleInitialFiles ==
    InitialFiles \cup
    { Complete([status |-> "success", rate_cny_per_gbp |-> 0]),
      Complete([status |-> "success", rate_cny_per_gbp |-> 9600000]) }

SingleInit ==
    /\ file \in SingleInitialFiles
    /\ file0 = file
    /\ pc = "start"
    /\ previous_data = None
    /\ future = [b \in Banks |-> Running]
    /\ results = <<>>
    /\ collected = {}
    /\ wrote = "none"
    /\ io_log = <<>>
    /\ exit_code = -1
    /\ adapter_in \in RunNets \X {"parse_gbp_rate_bs4"}
    /\ adapter_out = [called |-> FALSE, result |-> None]
    /\ RetryIdle

\* main, line 153
SingleLoad ==
    /\ pc = "start"
    /\ previous_data' = load_previous_data(file)
    /\ pc' = "fetch"
    /\ UNCHANGED <<file, file0, future, results, collected, wrote, io_log,
                   exit_code>>
    /\ UNCHANGED <<adapterVars, retryVars>>

\* main, lines 156-157 and 165-183: the fetch or the parse raises
SingleFetchFails ==
    /\ pc = "fetch"
    /\ fetch_and_parse(adapter_in[1]) = RuntimeError
    /\ adapter_out' = [called |-> TRUE, result |-> RuntimeError]
    /\ \E io \in IoOutcomes :
          LET h == single_except_handler(Entered, "RuntimeError", io)
          IN  /\ file' = h.file
              /\ wrote' = h.wrote
              /\ io_log' = h.io_log
    /\ exit_code' = 1
    /\ pc' = "exited"
    /\ UNCHANGED <<file0, previous_data, future, results, collected,
                   adapter_in>>
    /\ UNCHANGED retryVars

\* main, lines 156-163, and lines 165-183 when save_data raises
SingleSave ==
    /\ pc = "fetch"
    /\ fetch_and_parse(adapter_in[1]) # RuntimeError
    /\ adapter_out' = [called |-> TRUE,
                       result |-> fetch_and_parse(adapter_in[1])]
    /\ \E io \in IoOutcomes, io2 \in IoOutcomes :
          LET saved == single_save_data(fetch_and_parse(adapter_in[1]), file,
                                        previous_data, io)
              h == single_except_handler(
                       [file |-> saved.file, wrote |-> saved.wrote,
                        io_log |-> saved.io_log], saved.error, io2)
          IN  IF saved.raised
              THEN /\ file' = h.file
                   /\ wrote' = h.wrote
                   /\ io_log' = h.io_log
                   /\ exit_code' = 1
              ELSE /\ file' = saved.file
                   /\ wrote' = saved.wrote
                   /\ io_log' = saved.io_log
                   /\ exit_code' = 0
    /\ pc' = "exited"
    /\ UNCHANGED <<file0, previous_data, future, results, collected,
                   adapter_in>>
    /\ UNCHANGED retryVars

SingleNext == SingleLoad \/ SingleFetchFails \/ SingleSave

SpecSingle == SingleInit /\ [][SingleNext]_vars

(***************************************************************************)
(* fetch_html_with_retry alone, step by step (both scripts have the same   *)
(* loop).  Each attempt meets one of: the page is read and decoded, the    *)
(* try block raises URLError or HTTPError, the try block raises an         *)
(* exception of another class (a timeout while reading the response,       *)
(* for one), which the except clause does not catch.                       *)
(***************************************************************************)
AttemptOutcomes == {"ok", "URLError", "other"}

RetryInit ==
    /\ RunIdle
    /\ AdapterIdle
    /\ retries \in 0..MaxRetriesArg
    /\ network \in [1..retries -> AttemptOutcomes]
    /\ attempt = 0
    /\ retry_pc = "for"
    /\ trace = <<>>
    /\ returned = [kind |-> "none"]

\* urlopen, read and decode succeed: return content.decode(enc)
AttemptReturns ==
    /\ retry_pc = "for"
    /\ attempt < retries
    /\ network[attempt + 1] = "ok"
    /\ trace' = Append(trace, "attempt")
    /\ returned' = [kind |-> "value", text |-> "page"]
    /\ retry_pc' = "done"
    /\ UNCHANGED <<retries, network, attempt>>

\* except (URLError, HTTPError): sleep if an attempt is left, else raise
AttemptCaught ==
    /\ retry_pc = "for"
    /\ attempt < retries
    /\ network[attempt + 1] = "URLError"
    /\ trace' = Append(trace, "attempt")
    /\ IF attempt < retries - 1
       THEN /\ retry_pc' = "sleep"
            /\ UNCHANGED returned
       ELSE /\ retry_pc' = "done"
            /\ returned' = [kind |-> "raised", error |-> "RuntimeError"]
    /\ UNCHANGED <<retries, network, attempt>>

\* an exception the except clause does not name leaves the function
AttemptEscapes ==
    /\ retry_pc = "for"
    /\ attempt < retries
    /\ network[attempt + 1] = "other"
    /\ trace' = Append(trace, "attempt")
    /\ returned' = [kind |-> "raised", error |-> "other"]
    /\ retry_pc' = "done"
    /\ UNCHANGED <<retries, network, attempt>>

\* time.sleep(RETRY_DELAY), then the next turn of the loop
Sleep ==
    /\ retry_pc = "sleep"
    /\ trace' = Append(trace, "sleep")
    /\ attempt' = attempt + 1
    /\ retry_pc' = "for"
    /\ UNCHANGED <<retries, network, returned>>

\* range(retries) is exhausted without a return or a raise: return ""
LoopExhausted ==
    /\ retry_pc = "for"
    /\ attempt >= retries
    /\ returned' = [kind |-> "value", text |-> ""]
    /\ retry_pc' = "done"
    /\ UNCHANGED <<retries, network, attempt, trace>>

RetryNext ==
    \/ AttemptReturns /\ UNCHANGED <<runVars, adapterVars>>
    \/ AttemptCaught /\ UNCHANGED <<runVars, adapterVars>>
    \/ AttemptEscapes /\ UNCHANGED <<runVars, adapterVars>>
    \/ Sleep /\ UNCHANGED <<runVars, adapterVars>>
    \/ LoopExhausted /\ UNCHANGED <<runVars, adapterVars>>

SpecRetry == RetryInit /\ [][RetryNext]_vars

(***************************************************************************)
(* Vocabulary of the properties.                                           *)
(***************************************************************************)
Succeeded(b) ==
    future[b].state = "finished" /\ ~future[b].raised /\ future[b].result # None

Failed(b) == future[b].state = "finished" /\ ~Succeeded(b)

\* the run has replaced the file by a whole status-success snapshot
SuccessWritten ==
    /\ pc = "exited"
    /\ wrote = "success"
    /\ file.exists /\ file.complete
    /\ file.doc.status = "success"

\* main has called save_data in this run
SaveCalled ==
    pc = "exited" /\ results # <<>> /\ ~prev_banks_raises(previous_data)

InValidRange(rate) ==
    VALID_RATE_LO * Micro <= rate /\ rate <= VALID_RATE_HI * Micro

\* everything any of the six adapters returns on any page of the model
AllAdapterReturns ==
    {FETCH_FUNCTIONS(b, net) : b \in AllBanks, net \in AdapterNets}

Range(seq) == {seq[i] : i \in 1..Len(seq)}

\* the previous snapshot (the file the run started with) holds an entry of
\* this bank_code with a positive rate
PreviousPositive(code) ==
    /\ file0.exists /\ file0.complete
    /\ HasKey(file0.doc, "banks")
    /\ \E e \in Range(file0.doc.banks) :
          /\ HasKey(e, "bank_code") /\ e.bank_code = code
          /\ HasKey(e, "rate") /\ e.rate > 0

PreviousRate(code) ==
    LET e == CHOOSE e \in Range(file0.doc.banks) :
                 HasKey(e, "bank_code") /\ e.bank_code = code
    IN  e.rate

Abs(x) == IF x < 0 THEN -x ELSE x

\* percent, in units of 10^-2, is a nearest one to change / old * 100:
\* 2 * |percent * old - change * 100 * Pct| <= old, with old split in two
\* limbs to keep every product small
NearestPercent(percent, change, old) ==
    LET Scale == 100 * Pct
        a == percent * (old \div Scale) - change
        b == percent * (old % Scale)
    IN  /\ Abs(a) <= Scale
        /\ 2 * Abs(a * Scale + b) <= old

\* the orders in which the as_completed loop can have appended these quotes
Orders(res) ==
    {o \in [1..Len(res) -> Range(res)] : Range(o) = Range(res)}

\* what main persists as banks when the quotes were collected in this order
Reconciled(res) == sort(calculate_changes(res, previous_data))

(***************************************************************************)
(* C1: every quote an adapter returns, every quote in results and every    *)
(* entry of banks in a status-success snapshot written by the run has a    *)
(* rate r (rounded to 4 decimals) with 5.0 <= r <= 15.0.                   *)
(***************************************************************************)
C1_RatesInRange ==
    /\ \A r \in AllAdapterReturns : r # None => InValidRange(r.rate)
    /\ \A b \in Banks : Succeeded(b) => InValidRange(future[b].result.rate)
    /\ \A q \in Range(results) : InValidRange(q.rate)
    /\ SuccessWritten =>
          \A q \in Range(file.doc.banks) : InValidRange(q.rate)

\* a snapshot is written that holds a rate rounded up onto the upper bound
\* and a rate on the lower bound
C1_Witness ==
    /\ SuccessWritten
    /\ \E q \in Range(file.doc.banks) : q.rate = VALID_RATE_HI * Micro
    /\ \E q \in Range(file.doc.banks) : q.rate = VALID_RATE_LO * Micro

(***************************************************************************)
(* C2: every status-success snapshot written by main has banks sorted      *)
(* ascending by rate, bank_count equal to the length of banks, and         *)
(* best_rate and best_bank equal to the rate and bank_code of banks[0].    *)
(***************************************************************************)
C2_SnapshotShape ==
    SuccessWritten =>
        LET d == file.doc IN
        /\ \A i \in 1..(Len(d.banks) - 1) : d.banks[i].rate <= d.banks[i + 1].rate
        /\ d.bank_count = Len(d.banks)
        /\ d.bank_count >= 1
        /\ d.best_rate = d.banks[1].rate
        /\ d.best_bank = d.banks[1].bank_code

\* a snapshot in which two banks share the lowest rate and a third is dearer
C2_Witness ==
    /\ SuccessWritten
    /\ Len(file.doc.banks) >= 3
    /\ file.doc.banks[1].rate = file.doc.banks[2].rate
    /\ file.doc.banks[2].rate < file.doc.banks[3].rate

(***************************************************************************)
(* C3, as stated: when all adapters fail, no success snapshot is written;  *)
(* if no file existed before the run, a whole error document (status       *)
(* "error", non-empty error_message, empty banks) is at the path after     *)
(* it; if a file existed, its content is what it was before the run.       *)
(***************************************************************************)
AllFailed == \A b \in Banks : Failed(b)

IsErrorDocument(f) ==
    /\ f.exists /\ f.complete
    /\ f.doc.status = "error"
    /\ f.doc.error_message # ""
    /\ f.doc.banks = <<>>

C3_Original ==
    (pc = "exited" /\ AllFailed) =>
        /\ wrote # "success"
        /\ ~file0.exists => IsErrorDocument(file)
        /\ file0.exists => file = file0

(***************************************************************************)
(* C3, amended: when all adapters fail, no success snapshot is written and *)
(* the exit code is 1; if a file existed before the run, its content is    *)
(* unchanged; if none existed, exactly one write of the error document is  *)
(* attempted, and the error document is at the path after the run if that  *)
(* write succeeds; if it fails, the failure is swallowed and the path is   *)
(* left absent (mkdir or open failed) or incomplete (the dump failed).     *)
(***************************************************************************)
C3_AllFailed ==
    (pc = "exited" /\ AllFailed) =>
        /\ wrote # "success"
        /\ exit_code = 1
        /\ file0.exists => (file = file0 /\ io_log = <<>>)
        /\ ~file0.exists =>
              /\ Len(io_log) = 1
              /\ io_log[1] = "ok" => (IsErrorDocument(file) /\ wrote = "error")
              /\ io_log[1] = "open_fails" => file = Absent
              /\ io_log[1] = "dump_fails" => (file.exists /\ ~file.complete)

\* all adapters failed, each kind of failure occurred (None and an escaped
\* exception), no file existed and the error document was written
C3_Witness ==
    /\ pc = "exited" /\ AllFailed
    /\ \E b \in Banks : future[b].raised
    /\ \E b \in Banks : ~future[b].raised
    /\ ~file0.exists
    /\ IsErrorDocument(file)

(***************************************************************************)
(* C4: when the write of save_data fails, the whole document that was at   *)
(* the path before the run is untouched, and the run fails.                *)
(***************************************************************************)
SaveFailed == SaveCalled /\ io_log[1] # "ok"

C4_PreviousUntouched ==
    (SaveFailed /\ file0.exists /\ file0.complete) =>
        (file = file0 /\ exit_code = 1)

(***************************************************************************)
(* C5: fetch_all_banks waits for all adapters; results holds exactly one   *)
(* quote for each collected adapter that succeeded and none for those that *)
(* failed.  As stated: the run ends with a status-success snapshot written *)
(* whenever at least one adapter succeeded.                                *)
(***************************************************************************)
FanOutIsolated ==
    /\ \A b \in collected : future[b].state = "finished"
    /\ Len(results) = Cardinality({b \in collected : Succeeded(b)})
    /\ \A b \in collected :
          Succeeded(b) => \E i \in 1..Len(results) : results[i] = future[b].result
    /\ \A i \in 1..Len(results) :
          /\ results[i].bank_code \in collected
          /\ Succeeded(results[i].bank_code)
    /\ pc \in {"joined", "exited"} => collected = Banks

C5_Original ==
    /\ FanOutIsolated
    /\ (pc = "exited" /\ \E b \in Banks : Succeeded(b)) => SuccessWritten

(***************************************************************************)
(* C5, amended: as C5 for fetch_all_banks; the run ends with a             *)
(* status-success snapshot holding exactly the quotes of the adapters that *)
(* succeeded whenever at least one adapter succeeded, main reaches         *)
(* save_data and its write completes.                                      *)
(***************************************************************************)
C5_FanOut ==
    /\ FanOutIsolated
    /\ (SaveCalled /\ io_log[1] = "ok") =>
          /\ SuccessWritten
          /\ {q.bank_code : q \in Range(file.doc.banks)} =
                 {b \in Banks : Succeeded(b)}
          /\ Len(file.doc.banks) = Cardinality({b \in Banks : Succeeded(b)})
          /\ \A q \in Range(file.doc.banks) :
                 q.rate = future[q.bank_code].result.rate
    /\ (pc = "exited" /\ (\E b \in Banks : Succeeded(b))
           /\ ~prev_banks_raises(previous_data)) => SaveCalled

\* a run in which one adapter returned None, one raised and one succeeded,
\* the failures were collected after the success, and the snapshot holds
\* the one quote
C5_Witness ==
    /\ SuccessWritten
    /\ \E b \in Banks : future[b].raised
    /\ \E b \in Banks : Failed(b) /\ ~future[b].raised
    /\ Len(file.doc.banks) = 1

(***************************************************************************)
(* C6: in the banks main persists after calculate_changes, a quote carries *)
(* rate_change and rate_change_percent if and only if the previous         *)
(* snapshot's banks hold an entry of the same bank_code whose rate is      *)
(* positive; otherwise it carries neither.                                 *)
(***************************************************************************)
C6_ChangeFieldsIff ==
    SuccessWritten =>
        \A q \in Range(file.doc.banks) :
            /\ HasKey(q, "rate_change") <=> PreviousPositive(q.bank_code)
            /\ HasKey(q, "rate_change_percent") <=> PreviousPositive(q.bank_code)

\* against a previous snapshot with a zero, a negative and a positive rate,
\* three quotes are persisted and only the third carries the fields
C6_Witness ==
    /\ SuccessWritten
    /\ Len(file.doc.banks) = 3
    /\ file0.exists /\ file0.complete /\ HasKey(file0.doc, "banks")
    /\ \E e \in Range(file0.doc.banks) : HasKey(e, "rate") /\ e.rate = 0
    /\ \E e \in Range(file0.doc.banks) : HasKey(e, "rate") /\ e.rate < 0
    /\ Cardinality({q \in Range(file.doc.banks) : HasKey(q, "rate_change")}) = 1

(***************************************************************************)
(* C7, as stated: for fixed adapter results and a fixed previous snapshot, *)
(* the persisted banks sequence and best_bank are the same for every order *)
(* in which the workers complete, also when banks have equal rates.        *)
(***************************************************************************)
C7_Original ==
    SuccessWritten =>
        \A o \in Orders(results) :
            /\ Reconciled(o) = file.doc.banks
            /\ find_best_rate(Reconciled(o)).bank_code = file.doc.best_bank

(***************************************************************************)
(* C7, amended: the persisted order is deterministic up to the relative    *)
(* order of banks with equal rates.  For fixed adapter results and a fixed *)
(* previous snapshot, every completion order persists the same set of      *)
(* quotes, the same rate at every position and the same best_rate; a bank  *)
(* whose rate no other bank shares has the same position, and best_bank is *)
(* the same when one bank only holds the lowest rate.  (Banks with equal   *)
(* rates are persisted in the order in which they were collected.)         *)
(***************************************************************************)
SharedRate(banks, i) ==
    \E j \in 1..Len(banks) : j # i /\ banks[j].rate = banks[i].rate

C7_DeterministicUpToTies ==
    SuccessWritten =>
        /\ file.doc.banks = Reconciled(results)
        /\ \A o \in Orders(results) :
              LET r == Reconciled(o) IN
              /\ Range(r) = Range(file.doc.banks)
              /\ Len(r) = Len(file.doc.banks)
              /\ \A i \in 1..Len(r) : r[i].rate = file.doc.banks[i].rate
              /\ find_best_rate(r).rate = file.doc.best_rate
              /\ \A i \in 1..Len(r) :
                    ~SharedRate(file.doc.banks, i) => r[i] = file.doc.banks[i]
              /\ ~SharedRate(file.doc.banks, 1) =>
                    find_best_rate(r).bank_code = file.doc.best_bank

\* three quotes were collected dearest first, two of them at the same rate
C7_Witness ==
    /\ SuccessWritten
    /\ Len(results) = 3
    /\ results[1].rate > results[2].rate
    /\ results[2].rate = results[3].rate
    /\ file.doc.banks[3] = results[1]

(***************************************************************************)
(* C8: a matched row whose cells read 954.44 (per 100 units) resolves to   *)
(* the rate 9.5444, and a matched row whose cells read 9.5444 (quoted      *)
(* directly) resolves to the rate 9.5444 too.                              *)
(***************************************************************************)
C8_BothConventions ==
    (/\ adapter_out.called
     /\ adapter_in[2] \in AllBanks
     /\ adapter_in[1].failures < MAX_RETRIES
     /\ \E v \in {9544400, 95444} :
           adapter_in[1].page = <<Row7("GBP", v, v)>>) =>
        /\ adapter_out.result # None
        /\ adapter_out.result.rate = 9544400

(***************************************************************************)
(* C9, as stated: the process exits with 0 when at least one quote was     *)
(* obtained and with a non-zero code when none was; it exits with 0 only   *)
(* if a status-success snapshot was written in the run.                    *)
(***************************************************************************)
C9_Original ==
    pc = "exited" =>
        /\ results # <<>> => exit_code = 0
        /\ results = <<>> => exit_code # 0
        /\ exit_code = 0 => SuccessWritten

(***************************************************************************)
(* C9, amended: the process exits with 0 when at least one quote was       *)
(* obtained and main reconciled and saved the snapshot without an          *)
(* exception, and with 1 otherwise, in particular when no quote was        *)
(* obtained; it exits with 0 if and only if a status-success snapshot was  *)
(* written in the run.                                                     *)
(***************************************************************************)
C9_ExitCode ==
    /\ pc # "exited" => exit_code = -1
    /\ pc = "exited" =>
          /\ exit_code \in {0, 1}
          /\ exit_code = 0 <=> (SaveCalled /\ io_log[1] = "ok")
          /\ exit_code = 0 <=> SuccessWritten
          /\ results = <<>> => exit_code = 1

\* the process exits with 0 although one adapter returned None and one raised
C9_Witness ==
    /\ pc = "exited"
    /\ exit_code = 0
    /\ Cardinality({b \in Banks : Failed(b)}) = 2
    /\ Len(results) = 1

(***************************************************************************)
(* C10: for every persisted quote whose bank_code has a positive previous  *)
(* rate old, rate_change is new - old rounded to 4 decimals (a nearest     *)
(* multiple of 0.0001) and rate_change_percent is (new - old) / old * 100  *)
(* rounded to 2 decimals (a nearest multiple of 0.01); previous 9.5000 and *)
(* new 9.6000 give 0.1000 and 1.05; a bank whose rate did not change gets  *)
(* 0 and 0.                                                                *)
(***************************************************************************)
C10_ChangeValues ==
    SuccessWritten =>
        \A q \in Range(file.doc.banks) :
            PreviousPositive(q.bank_code) =>
                LET old == PreviousRate(q.bank_code) IN
                /\ HasKey(q, "rate_change") /\ HasKey(q, "rate_change_percent")
                /\ q.rate_change % (Micro \div Unit4) = 0
                /\ 2 * Abs(q.rate_change - (q.rate - old)) <= Micro \div Unit4
                /\ NearestPercent(q.rate_change_percent, q.rate - old, old)
                /\ (old = 9500000 /\ q.rate = 9600000) =>
                       (q.rate_change = 100000 /\ q.rate_change_percent = 105)
                /\ q.rate = old =>
                       (q.rate_change = 0 /\ q.rate_change_percent = 0)

\* one bank went from 9.5000 to 9.6000, another kept its rate
C10_Witness ==
    /\ SuccessWritten
    /\ \E q \in Range(file.doc.banks) :
          /\ PreviousPositive(q.bank_code)
          /\ PreviousRate(q.bank_code) = 9500000
          /\ q.rate = 9600000
          /\ q.rate_change = 100000
          /\ q.rate_change_percent = 105
    /\ \E q \in Range(file.doc.banks) :
          /\ PreviousPositive(q.bank_code)
          /\ PreviousRate(q.bank_code) = q.rate
          /\ q.rate_change = 0

(***************************************************************************)
(* Vocabulary of the adapter properties: the rows an adapter looks at, the *)
(* cells of those rows it takes as candidates, and the candidates it       *)
(* accepts.                                                                *)
(***************************************************************************)
FixedColumn(bank) == bank \in {"BOC", "parse_gbp_rate_bs4"}

RowTags(bank) == IF bank = "CCB" THEN {"td", "th"} ELSE {"td"}

MinCells(bank) ==
    IF FixedColumn(bank) THEN 7 ELSE IF bank = "CMB" THEN 4 ELSE 5

RowMatches(bank, cells) ==
    IF FixedColumn(bank)
    THEN Contains(cells[1].text, "YingBang") \/ Contains(cells[1].text, "GBP")
    ELSE \E i \in 1..Len(cells) :
            LET text == IF bank = "ICBC" THEN lower(cells[i].text)
                        ELSE cells[i].text
            IN  \/ Contains(text, "YingBang")
                \/ Contains(text, IF bank = "ICBC" THEN "gbp" ELSE "GBP")

MatchedRows(bank, page) ==
    {i \in 1..Len(page) :
        LET cells == find_all(page[i], RowTags(bank))
        IN  Len(cells) >= MinCells(bank) /\ RowMatches(bank, cells)}

\* <<row, cell>> positions of the candidates, in the order they are tried
Candidates(bank, page) ==
    {<<i, j>> \in (1..Len(page)) \X (1..7) :
        /\ i \in MatchedRows(bank, page)
        /\ j <= Len(find_all(page[i], RowTags(bank)))
        /\ FixedColumn(bank) => j = 4}

CandidateCell(bank, page, pos) == find_all(page[pos[1]], RowTags(bank))[pos[2]]

\* the candidate is numeric and fails validate_rate
FailsValidation(c) ==
    \/ c.kind = "nan"
    \/ c.kind = "num" /\ ~validate_rate(c.num)

\* the candidate is numeric and passes the adapter's range checks
InRange(bank, c) ==
    /\ c.kind = "num"
    /\ validate_rate(c.num)
    /\ ~FixedColumn(bank) =>
           (PER100_LO * Unit4 < c.num /\ c.num < PER100_HI * Unit4)

NoResult(result) == result = None \/ result = RuntimeError

\* the page the adapter of adapter_in was given, <<>> when the fetch failed
ServedPage ==
    IF adapter_in[1].failures < MAX_RETRIES THEN adapter_in[1].page ELSE <<>>

(***************************************************************************)
(* C11: in every adapter (and in parse_gbp_rate_bs4) a candidate that      *)
(* fails validate_rate is skipped and the scan goes on: when the page      *)
(* holds a candidate that is in range, and the candidates tried before it  *)
(* are numeric, the adapter returns a result.                              *)
(***************************************************************************)
C11_ContinuesAfterInvalid ==
    adapter_out.called =>
        \A pos \in Candidates(adapter_in[2], ServedPage) :
            (/\ InRange(adapter_in[2],
                        CandidateCell(adapter_in[2], ServedPage, pos))
             /\ FixedColumn(adapter_in[2]) =>
                    \A before \in Candidates(adapter_in[2], ServedPage) :
                        before[1] < pos[1] =>
                            CandidateCell(adapter_in[2], ServedPage,
                                          before).kind # "text")
            => ~NoResult(adapter_out.result)

\* C11 for every adapter but fetch_boc: the five row-scanning adapters and
\* parse_gbp_rate_bs4 go on after a candidate that fails validation
C11_AllButBoc == adapter_in[2] # "BOC" => C11_ContinuesAfterInvalid

\* C11: a fixed-column scan returned the quote of the second row after the
\* first row's candidate had failed validation
C11_ParseWitness ==
    /\ adapter_out.called
    /\ FixedColumn(adapter_in[2])
    /\ Len(ServedPage) = 2
    /\ Candidates(adapter_in[2], ServedPage) = {<<1, 4>>, <<2, 4>>}
    /\ FailsValidation(CandidateCell(adapter_in[2], ServedPage, <<1, 4>>))
    /\ InRange(adapter_in[2], CandidateCell(adapter_in[2], ServedPage, <<2, 4>>))
    /\ ~NoResult(adapter_out.result)

(***************************************************************************)
(* Vocabulary of C12: the in-range candidates of the first matched row     *)
(* that has any.                                                           *)
(***************************************************************************)
InRangeOfRow(bank, page, i) ==
    {pos \in Candidates(bank, page) :
        pos[1] = i /\ InRange(bank, CandidateCell(bank, page, pos))}

\* the first row of the page with an in-range candidate, 0 when there is none
DecidingRow(bank, page) ==
    IF \A i \in 1..Len(page) : InRangeOfRow(bank, page, i) = {} THEN 0
    ELSE CHOOSE i \in 1..Len(page) :
             /\ InRangeOfRow(bank, page, i) # {}
             /\ \A k \in 1..(i - 1) : InRangeOfRow(bank, page, k) = {}

(***************************************************************************)
(* C12: a row-scanning adapter returns the maximum of the in-range         *)
(* candidates of the matched row that decides, whatever the order of the   *)
(* cells in that row.                                                      *)
(***************************************************************************)
C12_SelectsMaximum ==
    (/\ adapter_out.called
     /\ adapter_in[2] \in AllBanks
     /\ ~FixedColumn(adapter_in[2])
     /\ DecidingRow(adapter_in[2], ServedPage) # 0) =>
        LET bank == adapter_in[2]
            own == InRangeOfRow(bank, ServedPage, DecidingRow(bank, ServedPage))
        IN  /\ adapter_out.result # None
            /\ \A pos \in own :
                  adapter_out.result.rate >=
                      round4(CandidateCell(bank, ServedPage, pos).num)

\* C12, what the code does: the first in-range candidate of the deciding
\* row, in cell order, is returned
C12_SelectsFirst ==
    (/\ adapter_out.called
     /\ adapter_in[2] \in AllBanks
     /\ ~FixedColumn(adapter_in[2])
     /\ DecidingRow(adapter_in[2], ServedPage) # 0) =>
        LET bank == adapter_in[2]
            own == InRangeOfRow(bank, ServedPage, DecidingRow(bank, ServedPage))
            first == CHOOSE pos \in own : \A other \in own : pos[2] <= other[2]
        IN  /\ adapter_out.result # None
            /\ adapter_out.result.rate =
                   round4(CandidateCell(bank, ServedPage, first).num)

\* C12: the row reads 950.00 before 960.00 and the adapter returns 9.5000
C12_FirstNotMaximum ==
    /\ adapter_out.called
    /\ ~FixedColumn(adapter_in[2])
    /\ ServedPage = <<Row7("YingBang", 9500000, 9600000)>>
    /\ adapter_out.result # None
    /\ adapter_out.result.rate = 9500000

(***************************************************************************)
(* Vocabulary of C13.                                                      *)
(***************************************************************************)
Attempts == Cardinality({i \in 1..Len(trace) : trace[i] = "attempt"})

Sleeps == Cardinality({i \in 1..Len(trace) : trace[i] = "sleep"})

\* attempts and sleeps alternate, an attempt first: exactly one sleep lies
\* between two consecutive attempts
Alternates ==
    \A i \in 1..Len(trace) :
        trace[i] = (IF i % 2 = 1 THEN "attempt" ELSE "sleep")

CallEnded == retry_pc = "done" /\ returned.kind # "none"

(***************************************************************************)
(* C13: a call with retries = n >= 1 makes at most n attempts; it returns  *)
(* the page at the first attempt that succeeds and makes no attempt after  *)
(* it; one sleep lies between two consecutive attempts and none after the  *)
(* last; it ends with an error if and only if all n attempts failed; it    *)
(* returns a value only from a successful attempt.                         *)
(***************************************************************************)
C13_RetryContract ==
    retries >= 1 =>
        /\ Attempts <= retries
        /\ Alternates
        /\ CallEnded =>
              /\ trace[Len(trace)] = "attempt"
              /\ Sleeps = Attempts - 1
              /\ \A i \in 1..(Attempts - 1) : network[i] # "ok"
              /\ returned.kind = "value" =>
                    /\ network[Attempts] = "ok"
                    /\ returned.text = "page"
              /\ returned.kind = "raised" <=>
                    /\ Attempts = retries
                    /\ \A i \in 1..retries : network[i] # "ok"

(***************************************************************************)
(* C13 where every failed attempt raised URLError or HTTPError: the        *)
(* contract holds, the error is RuntimeError, and the call agrees with the *)
(* summary fetch_html_with_retry the adapters use.                         *)
(***************************************************************************)
C13_CaughtFailures ==
    (/\ retries >= 1
     /\ \A i \in 1..Attempts : network[i] # "other") =>
        /\ C13_RetryContract
        /\ CallEnded =>
              LET failures == Cardinality({i \in 1..retries :
                                  \A k \in 1..i : network[k] = "URLError"})
                  got == fetch_html_with_retry(failures, retries, <<"page">>)
              IN  /\ got.ok <=> returned.kind = "value"
                  /\ got.attempts = Attempts
                  /\ got.sleeps = Sleeps
                  /\ returned.kind = "raised" => returned.error = "RuntimeError"

\* C13: an attempt that raises another exception ends the call at once,
\* without a sleep and whatever the number of attempts left
C13_EscapesAtOnce ==
    (CallEnded /\ Attempts >= 1 /\ network[Attempts] = "other") =>
        /\ returned = [kind |-> "raised", error |-> "other"]
        /\ trace[Len(trace)] = "attempt"

\* C13: retries = 3, two attempts failed with URLError, the third succeeded
C13_Witness ==
    /\ CallEnded
    /\ retries = 3
    /\ trace = <<"attempt", "sleep", "attempt", "sleep", "attempt">>
    /\ returned = [kind |-> "value", text |-> "page"]

\* C13: with retries <= 0 a value is returned without any attempt
C13_NoRetries ==
    (CallEnded /\ retries <= 0) =>
        returned = [kind |-> "value", text |-> ""] /\ trace = <<>>

(***************************************************************************)
(* Vocabulary of C14.                                                      *)
(***************************************************************************)
\* no write this run attempted met a failure of the file system
NoWriteFailed == \A i \in 1..Len(io_log) : io_log[i] = "ok"

\* the run ended, at least one adapter had yielded a quote
EndedWithQuotes == pc = "exited" /\ results # <<>>

(***************************************************************************)
(* C14: whatever document the run found at the output path, a run in which *)
(* at least one adapter yields a quote (and no write fails) ends with a    *)
(* status-success snapshot of the new quotes at the path.                  *)
(***************************************************************************)
C14_NeverBlocks ==
    (EndedWithQuotes /\ NoWriteFailed) =>
        /\ SuccessWritten
        /\ exit_code = 0
        /\ Len(file.doc.banks) = Len(results)

\* C14 for every previous document but a snapshot with an entry that lacks
\* bank_code: absent, unparseable, an error document, the single-bank
\* script's document, zero, negative and missing rates do not block the run
C14_OtherPrevious == ~prev_banks_raises(previous_data) => C14_NeverBlocks

\* C14: a run blocked by the previous document leaves that document at the
\* path, so the next run starts from the state this run started from
C14_BlockedForever ==
    (EndedWithQuotes /\ prev_banks_raises(previous_data)) =>
        /\ file = file0
        /\ wrote = "none"
        /\ exit_code = 1

\* C14: a run that had quotes was blocked by the previous document
C14_Blocked ==
    /\ EndedWithQuotes
    /\ NoWriteFailed
    /\ prev_banks_raises(previous_data)
    /\ file = file0

(***************************************************************************)
(* C14 in the single-bank script: a run whose parse yields a rate (and     *)
(* whose writes do not fail) ends with a status-success document at the    *)
(* path, whatever document it found there.                                 *)
(***************************************************************************)
C14_SingleNeverBlocks ==
    (/\ pc = "exited"
     /\ adapter_out.result # RuntimeError
     /\ NoWriteFailed) =>
        /\ SuccessWritten
        /\ exit_code = 0

\* C14 in the single-bank script: only a previous rate_cny_per_gbp of 0
\* blocks the run, and the run leaves that document at the path
C14_SingleBlockedByZero ==
    (/\ pc = "exited"
     /\ adapter_out.result # RuntimeError
     /\ NoWriteFailed
     /\ ~SuccessWritten) =>
        /\ previous_data # None
        /\ HasKey(previous_data, "rate_cny_per_gbp")
        /\ previous_data.rate_cny_per_gbp = 0
        /\ file = file0
        /\ exit_code = 1

\* C4 in the single-bank script: a save that fails leaves a complete
\* previous document as it was
C4_SinglePreviousUntouched ==
    (/\ pc = "exited"
     /\ adapter_out.result # RuntimeError
     /\ exit_code = 1
     /\ file0.exists /\ file0.complete) =>
        file = file0

\* the single-bank script: previous 9.5000, new 9.6000
C10_SingleWitness ==
    /\ SuccessWritten
    /\ previous_data # None
    /\ HasKey(previous_data, "rate_cny_per_gbp")
    /\ previous_data.rate_cny_per_gbp = 9500000
    /\ file.doc.rate_cny_per_gbp = 9600000
    /\ file.doc.rate_change = 100000
    /\ file.doc.rate_change_percent = 105

====
